---- MODULE Spec2Model ----
(***************************************************************************)
(* Model of the instructor quiz generator (src/app.py).                    *)
(*                                                                         *)
(* The page script configures the page, builds the form and, on submit,    *)
(* validates the three text fields and calls generate_python_code, which   *)
(* parses the question lines, hashes every correct answer and substitutes  *)
(* the result into a fixed script template.  The emitted script, run by a  *)
(* student, grades the submitted answers with eval_quiz and draws a        *)
(* certificate with generate_certificate when the score reaches the        *)
(* threshold.                                                              *)
(*                                                                         *)
(* Line 199 passes layout="center" to st.set_page_config, which Streamlit  *)
(* rejects: a run of the page stops there with an exception, before the    *)
(* form is built (SpecPage).  generate_python_code and the script it emits *)
(* are therefore modelled as called directly with their arguments (Spec,   *)
(* SpecParse), not through the form.                                       *)
(*                                                                         *)
(* Python strings are sequences of one-character strings.  SHA-256 is      *)
(* modelled as a collision-free function with a 64-character result: the   *)
(* digest characters themselves are not computed.                          *)
(***************************************************************************)
EXTENDS Integers, Sequences, FiniteSets, TLC

VARIABLES
    title,           \* argument title (in the page: st.text_input "Quiz Title")
    instructor,      \* argument instructor (st.text_input "Instructor Name")
    quiz_type,       \* argument quiz_type (st.selectbox "Quiz Type")
    questions_text,  \* argument questions_text (st.text_area)
    page,            \* what the Streamlit page shows: "start" before the
                     \* script has run, then "exception", "form", "error", "code"
    generated_code,  \* what generate_python_code returned last, NoCode before
    gen_calls,       \* number of calls of generate_python_code so far
    result,          \* what the last eval_quiz call of the script returned
    cert_files,      \* certificate files in the temporary directory
    uuid_count,      \* number of uuid4 tokens drawn so far
    today            \* the current date, as a day number

vars == <<title, instructor, quiz_type, questions_text, page, generated_code,
          gen_calls, result, cert_files, uuid_count, today>>

form == <<title, instructor, quiz_type, questions_text>>

----------------------------------------------------------------------------
(* Bounds of the model *)

MaxTextLen == 6
MaxCerts == 1
MaxDay == 1
MaxGen == 2

(* Program constants *)

DigestHexLen == 64
MinFieldsMC == 3
MinFieldsText == 2
PassNum == 8
PassDen == 10

MultipleChoice == "Multiple Choice"
TextAnswer == "Text Answer"
QuizTypes == {MultipleChoice, TextAnswer}

\* cert_path = None, line 156
NoPath == 0

\* st.set_page_config(..., layout="center"), line 199
Layout == "center"

\* the layouts st.set_page_config accepts; any other raises
\* StreamlitAPIException
StreamlitLayouts == {"centered", "wide"}

NoCode == [none |-> "code"]
NoResult == [none |-> "result"]
\* Python's None, as submitted by an unselected gr.Radio
None == <<"<None>">>

----------------------------------------------------------------------------
(* Python string operations *)

Whitespace == {" ", "\n"}

LowerChar(c) ==
    CASE c = "A" -> "a"
      [] c = "Q" -> "q"
      [] OTHER -> c

Lower(s) == [i \in 1..Len(s) |-> LowerChar(s[i])]

RECURSIVE LStrip(_)
LStrip(s) ==
    IF s # <<>> /\ Head(s) \in Whitespace THEN LStrip(Tail(s)) ELSE s

RECURSIVE RStrip(_)
RStrip(s) ==
    IF s # <<>> /\ s[Len(s)] \in Whitespace
    THEN RStrip(SubSeq(s, 1, Len(s) - 1))
    ELSE s

Strip(s) == RStrip(LStrip(s))

\* str.split(sep) with a one-character separator: "" splits to [""]
RECURSIVE Split(_, _)
Split(s, sep) ==
    IF \E i \in 1..Len(s) : s[i] = sep
    THEN LET i == CHOOSE k \in 1..Len(s) :
                      s[k] = sep /\ \A j \in 1..(k - 1) : s[j] # sep
         IN  <<SubSeq(s, 1, i - 1)>> \o Split(SubSeq(s, i + 1, Len(s)), sep)
    ELSE <<s>>

\* truthiness of a str or None
Truthy(v) == v # None /\ v # <<>>

\* str(v) of a str or None
Str(v) == IF v = None THEN <<"N", "o", "n", "e">> ELSE v

\* hashlib.sha256(s.encode()).hexdigest()
sha256_hexdigest(s) ==
    s \o <<"|">> \o [i \in 1..(DigestHexLen - 1 - Len(s)) |-> "0"]

----------------------------------------------------------------------------
(* generate_python_code: the parser and hasher, lines 66-89 *)

\* parts = [p.strip() for p in line.split(",")]
Parts(line) ==
    LET raw == Split(line, ",")
    IN  [i \in 1..Len(raw) |-> Strip(raw[i])]

\* variant: the options slice keeps the last field (parts[1:])
MCRecord_answer_in_options(parts) ==
    [question |-> parts[1],
     options |-> SubSeq(parts, 2, Len(parts)),
     answer_hash |-> sha256_hexdigest(Lower(parts[Len(parts)]))]

\* variant: the answer is hashed without lowercasing
MCRecord_no_lower(parts) ==
    [question |-> parts[1],
     options |-> SubSeq(parts, 2, Len(parts) - 1),
     answer_hash |-> sha256_hexdigest(parts[Len(parts)])]

\* the record appended for a multiple-choice line
MCRecord(parts) ==
    [question |-> parts[1],
     options |-> SubSeq(parts, 2, Len(parts) - 1),
     answer_hash |-> sha256_hexdigest(Lower(parts[Len(parts)]))]

\* variant: the answer is the last field, as for multiple choice
TextRecord_last_field(parts) ==
    [question |-> parts[1],
     answer_hash |-> sha256_hexdigest(Lower(parts[Len(parts)]))]

\* the record appended for a text-answer line
TextRecord(parts) ==
    [question |-> parts[1],
     answer_hash |-> sha256_hexdigest(Lower(parts[2]))]

\* variant: the field-count tests are off by one (<= for <)
ParseLine_off_by_one(qtype, line) ==
    IF Strip(line) = <<>>
    THEN <<>>
    ELSE LET parts == Parts(line)
         IN  IF qtype = MultipleChoice
             THEN IF Len(parts) <= MinFieldsMC THEN <<>> ELSE <<MCRecord(parts)>>
             ELSE IF Len(parts) <= MinFieldsText THEN <<>> ELSE <<TextRecord(parts)>>

\* one iteration of the loop over the lines: the records the line appends
ParseLine(qtype, line) ==
    IF Strip(line) = <<>>
    THEN <<>>
    ELSE LET parts == Parts(line)
         IN  IF qtype = MultipleChoice
             THEN IF Len(parts) < MinFieldsMC THEN <<>> ELSE <<MCRecord(parts)>>
             ELSE IF Len(parts) < MinFieldsText THEN <<>> ELSE <<TextRecord(parts)>>

RECURSIVE ParseLines(_, _)
ParseLines(qtype, lines) ==
    IF lines = <<>>
    THEN <<>>
    ELSE ParseLine(qtype, Head(lines)) \o ParseLines(qtype, Tail(lines))

\* parsed_questions after the loop
parsed_questions(qtype, text) == ParseLines(qtype, Split(Strip(text), "\n"))

\* variant: the generation date is written into the script
generate_python_code_dated(t, ins, qtype, text) ==
    [title |-> t,
     instructor |-> ins,
     quiz_type |-> qtype,
     questions |-> parsed_questions(qtype, text),
     generated_on |-> today]

\* The emitted script, as the values substituted into the fixed template:
\* {title}, {instructor}, {quiz_type} and {parsed_questions}.
generate_python_code(t, ins, qtype, text) ==
    [title |-> t,
     instructor |-> ins,
     quiz_type |-> qtype,
     questions |-> parsed_questions(qtype, text)]

----------------------------------------------------------------------------
(* The emitted script: eval_quiz and generate_certificate, lines 106-165 *)

Anonymous == <<"A", "n", "o", "n", "y", "m", "o", "u", "s">>

\* variant: the test "ans and" is missing
Correct_unguarded(ans, q) ==
    sha256_hexdigest(Strip(Lower(Str(ans)))) = q.answer_hash

\* the condition of the grading loop, line 149
Correct(ans, q) ==
    /\ Truthy(ans)
    /\ sha256_hexdigest(Strip(Lower(Str(ans)))) = q.answer_hash

\* score after the loop over enumerate(answers), lines 147-150
Score(questions, answers) ==
    Cardinality({i \in 1..Len(answers) : Correct(answers[i], questions[i])})

\* variant: the threshold is exclusive (> for >=)
Passed_exclusive(score, total) ==
    total > 0 /\ score * PassDen > PassNum * total

\* line 159.  score / total_questions is the correctly rounded quotient and
\* 0.8 the double nearest to 8/10, so for totals below 2^50 the comparison of
\* doubles agrees with the comparison of the exact fractions.
Passed(score, total) ==
    total > 0 /\ score * PassDen >= PassNum * total

\* the file written by generate_certificate, lines 106-135
Certificate(id, name, score, total, ins) ==
    [path |-> id, name |-> name, score |-> score, total |-> total,
     instructor |-> ins, date |-> today]

\* what eval_quiz(name, *answers) returns, with its arguments
eval_quiz(script, name, answers) ==
    LET graded_name == IF Strip(name) = <<>> THEN Anonymous ELSE name
        score == Score(script.questions, answers)
        total == Len(script.questions)
    IN  [name |-> graded_name,
         answers |-> answers,
         score |-> score,
         total |-> total,
         passed |-> Passed(score, total),
         cert_path |-> IF Passed(score, total) THEN uuid_count + 1 ELSE NoPath]

----------------------------------------------------------------------------
(* Inputs *)

Alphabet == {"a", "A", " ", ",", "\n"}

\* every text of at most MaxTextLen characters
Texts == UNION {[1..n -> Alphabet] : n \in 0..MaxTextLen}

FieldPool == {<<>>, <<" ">>, <<"T">>}

FiveLines ==
    <<"q", ",", "a", ",", "a", "\n", "q", ",", "a", ",", "a", "\n",
      "q", ",", "a", ",", "a", "\n", "q", ",", "a", ",", "a", "\n",
      "q", ",", "a", ",", "a">>

SampleQuiz == <<"q", ",", "a", ",", "A">>

TextPool ==
    {<<>>,
     <<" ">>,
     <<"q", ",", " ", "A", " ">>,
     <<"q", ",">>,
     SampleQuiz,
     <<"Q", ",", "a", ",", "b", ",", "c">>,
     <<"q", ",", "a", ",", "a", "\n", "\n", "q", "\n", "q", ",", "b">>,
     FiveLines}

NamePool == {<<" ">>, <<"A", "d", "a">>}

\* what a gr.Textbox can hold
TypedAnswers == {<<>>, <<" ">>, <<" ", "A", " ">>, <<"b">>}

\* the value of answer input i: the selected choice of the gr.Radio built
\* from q["options"] (None when nothing is selected), or the gr.Textbox text
AnswerValues(script, i) ==
    IF script.quiz_type = MultipleChoice
    THEN {None} \cup {script.questions[i].options[k] :
                         k \in 1..Len(script.questions[i].options)}
    ELSE TypedAnswers

\* one value per answer input, lines 174-192
AnswerTuples(script) ==
    {a \in [1..Len(script.questions) -> UNION {AnswerValues(script, i) :
                                                i \in 1..Len(script.questions)}] :
        \A i \in 1..Len(script.questions) : a[i] \in AnswerValues(script, i)}

----------------------------------------------------------------------------
(* Actions *)

TypeOK ==
    /\ quiz_type \in QuizTypes
    /\ page \in {"start", "exception", "form", "error", "code"}
    /\ gen_calls \in 0..MaxGen
    /\ uuid_count \in 0..MaxCerts
    /\ today \in 0..MaxDay

\* nothing has run yet
InitRest ==
    /\ page = "start"
    /\ generated_code = NoCode
    /\ gen_calls = 0
    /\ result = NoResult
    /\ cert_files = {}
    /\ uuid_count = 0
    /\ today = 0

\* The arguments of generate_python_code are one of the samples: every title
\* and instructor of FieldPool with the first sample quiz, and every sample
\* quiz with the title and instructor "T" (the five-question quiz as a
\* multiple-choice one).
Init ==
    /\ title \in FieldPool
    /\ instructor \in FieldPool
    /\ quiz_type \in QuizTypes
    /\ questions_text \in TextPool
    /\ \/ quiz_type = MultipleChoice /\ questions_text = SampleQuiz
       \/ title = <<"T">> /\ instructor = <<"T">>
    /\ questions_text = FiveLines => quiz_type = MultipleChoice
    /\ InitRest

\* the argument questions_text is any text of at most MaxTextLen characters
InitParse ==
    /\ title = <<"T">>
    /\ instructor = <<"T">>
    /\ quiz_type \in QuizTypes
    /\ questions_text \in Texts
    /\ InitRest

\* the page before its script has run: no widget holds a value
InitPage ==
    /\ title = <<>>
    /\ instructor = <<>>
    /\ quiz_type = MultipleChoice
    /\ questions_text = <<>>
    /\ InitRest

\* A run of the page script up to the form, lines 199-222:
\* st.set_page_config raises for a layout it does not know, which ends the
\* run before st.form; otherwise the form is shown.
RunPage ==
    /\ page = "start"
    /\ page' = IF Layout \in StreamlitLayouts THEN "form" ELSE "exception"
    /\ UNCHANGED <<form, generated_code, gen_calls, result, cert_files,
                   uuid_count, today>>

\* the form, once shown, is filled in and submitted: lines 203-231
SubmitForm ==
    /\ page \in {"form", "error", "code"}
    /\ \E t \in FieldPool, ins \in FieldPool, qtype \in QuizTypes, text \in TextPool :
          /\ title' = t
          /\ instructor' = ins
          /\ quiz_type' = qtype
          /\ questions_text' = text
          /\ IF ~(Truthy(t) /\ Truthy(ins) /\ Truthy(text))
             THEN /\ page' = "error"
                  /\ UNCHANGED <<generated_code, gen_calls>>
             ELSE /\ gen_calls < MaxGen
                  /\ page' = "code"
                  /\ generated_code' = generate_python_code(t, ins, qtype, text)
                  /\ gen_calls' = gen_calls + 1
    /\ UNCHANGED <<result, cert_files, uuid_count, today>>

\* generate_python_code(title, instructor, quiz_type, questions_text) is
\* called with the arguments: lines 60-196
CallGenerate ==
    /\ gen_calls < MaxGen
    /\ generated_code' =
           generate_python_code(title, instructor, quiz_type, questions_text)
    /\ gen_calls' = gen_calls + 1
    /\ UNCHANGED <<form, page, result, cert_files, uuid_count, today>>

\* a student submits the quiz of the emitted script: submit_btn.click, lines 188-192
SubmitQuiz ==
    /\ generated_code # NoCode
    /\ \E name \in NamePool, answers \in AnswerTuples(generated_code) :
          LET r == eval_quiz(generated_code, name, answers)
          IN  /\ r.passed => uuid_count < MaxCerts
              /\ result' = r
              /\ IF r.passed
                 THEN /\ uuid_count' = uuid_count + 1
                      /\ cert_files' = cert_files \cup
                            {Certificate(uuid_count + 1, r.name, r.score, r.total,
                                         generated_code.instructor)}
                 ELSE UNCHANGED <<cert_files, uuid_count>>
    /\ UNCHANGED <<form, page, generated_code, gen_calls, today>>

\* a day passes
Tick ==
    /\ today < MaxDay
    /\ today' = today + 1
    /\ UNCHANGED <<form, page, generated_code, gen_calls, result, cert_files,
                   uuid_count>>

Next == CallGenerate \/ SubmitQuiz \/ Tick

Spec == Init /\ [][Next]_vars

NextParse == CallGenerate

SpecParse == InitParse /\ [][NextParse]_vars

\* the page as Streamlit runs it
NextPage == RunPage \/ SubmitForm

SpecPage == InitPage /\ [][NextPage]_vars

----------------------------------------------------------------------------
(* The input as the claims describe it: the lines of the text as typed,    *)
(* their comma-separated fields, and the lines the selected quiz type      *)
(* accepts.                                                                *)

InputLines == Split(questions_text, "\n")

Fields(line) == Split(line, ",")

MinFields == IF quiz_type = MultipleChoice THEN MinFieldsMC ELSE MinFieldsText

IsAccepted(line) == Strip(line) # <<>> /\ Len(Fields(line)) >= MinFields

AcceptedLines == SelectSeq(InputLines, IsAccepted)

\* the correct-answer field of an accepted line, as typed
AnswerField(line) ==
    IF quiz_type = MultipleChoice
    THEN Fields(line)[Len(Fields(line))]
    ELSE Fields(line)[2]

\* the fields of an accepted line that are not its correct-answer field and
\* that the quiz type reads, trimmed
OtherFields(line) ==
    IF quiz_type = MultipleChoice
    THEN {Strip(Fields(line)[k]) : k \in 1..(Len(Fields(line)) - 1)}
    ELSE {Strip(Fields(line)[1])}

\* every plaintext field of a record
PlainFields(q) ==
    {q.question} \cup
    (IF "options" \in DOMAIN q THEN {q.options[k] : k \in 1..Len(q.options)} ELSE {})

\* sub is what was typed in orig, in some letter case and with some
\* surrounding whitespace
IsVariant(sub, orig) == sub # None /\ Lower(Strip(sub)) = Lower(Strip(orig))

Generated == generated_code # NoCode

Graded == Generated /\ result # NoResult

----------------------------------------------------------------------------
(* Claims *)

\* C1 (as claimed): every submitted answer that is the original
\* correct-answer field of its line, in any letter case and with any
\* surrounding whitespace, is scored as correct by eval_quiz, also when that
\* field is empty after trimming: the score is at least the number of such
\* answers.
C1_RoundTrip ==
    Graded =>
        LET acc == AcceptedLines
            same == {i \in 1..Len(result.answers) :
                        IsVariant(result.answers[i], AnswerField(acc[i]))}
        IN  result.score >= Cardinality(same)

\* C2: a certificate is produced by eval_quiz (cert_path is set and names a
\* file that generate_certificate wrote) exactly when total > 0 and
\* 5 * score >= 4 * total.
C2_Threshold ==
    Graded =>
        LET issued == /\ result.cert_path # NoPath
                      /\ \E c \in cert_files :
                            /\ c.path = result.cert_path
                            /\ c.score = result.score
                            /\ c.total = result.total
        IN  /\ result.total > 0 => (issued <=> 5 * result.score >= 4 * result.total)
            /\ result.total = 0 => ~issued
            /\ ~issued => result.cert_path = NoPath

C2_Witness ==
    /\ Graded
    /\ result.total = 5
    /\ result.score = 4
    /\ result.cert_path # NoPath

\* C3 is about the form handler, lines 224-231.  Under SpecPage the run of
\* the page ends at line 199, so no form is ever submitted and the handler
\* never runs: the page shows the exception, and neither the blocking error
\* nor a script.
PageStopsAtConfig ==
    /\ page \in {"start", "exception"}
    /\ generated_code = NoCode
    /\ gen_calls = 0

\* C4 (as claimed): no field of any record (question, options, answer_hash)
\* is the correct-answer string of its line.  Stated for the lines whose
\* correct answer has at least one character: an empty answer has no
\* plaintext to show.
C4_NoPlaintext ==
    Generated =>
        LET acc == AcceptedLines
        IN  \A i \in 1..Len(acc) :
                LET answer == Strip(AnswerField(acc[i]))
                    q == generated_code.questions[i]
                IN  answer # <<>> =>
                        answer \notin (PlainFields(q) \cup {q.answer_hash})

\* C4 (amended): the answer_hash of a record is a digest of DigestHexLen
\* characters and never the correct-answer string, and a plaintext field of
\* the record is the correct-answer string only when the line has the same
\* string in another of its fields.
C4_NoPlaintextAmended ==
    Generated =>
        LET acc == AcceptedLines
        IN  \A i \in 1..Len(acc) :
                LET answer == Strip(AnswerField(acc[i]))
                    q == generated_code.questions[i]
                IN  /\ q.answer_hash # answer
                    /\ q.answer_hash # Lower(answer)
                    /\ Len(q.answer_hash) = DigestHexLen
                    /\ answer \notin OtherFields(acc[i]) => answer \notin PlainFields(q)

C4_Witness ==
    /\ Generated
    /\ \E i \in 1..Len(AcceptedLines) :
          LET answer == Strip(AnswerField(AcceptedLines[i]))
          IN  /\ answer # <<>>
              /\ answer \notin OtherFields(AcceptedLines[i])
              /\ Len(Fields(AcceptedLines[i])) >= 3

\* C5: a multiple-choice line Q,O1,...,On,A with at least 3 fields yields
\* exactly one record, with question = trimmed Q, options = the trimmed
\* O1..On in input order and answer_hash = digest(lowercase(trimmed A)).
C5_MultipleChoice ==
    (Generated /\ quiz_type = MultipleChoice) =>
        LET acc == AcceptedLines
            qs == generated_code.questions
        IN  /\ Len(qs) = Len(acc)
            /\ \A i \in 1..Len(acc) :
                  LET f == Fields(acc[i])
                      n == Len(f)
                  IN  /\ qs[i].question = Strip(f[1])
                      /\ Len(qs[i].options) = n - 2
                      /\ \A k \in 1..(n - 2) : qs[i].options[k] = Strip(f[k + 1])
                      /\ qs[i].answer_hash = sha256_hexdigest(Lower(Strip(f[n])))

C5_Witness ==
    /\ Generated
    /\ quiz_type = MultipleChoice
    /\ \E i \in 1..Len(AcceptedLines) :
          LET f == Fields(AcceptedLines[i])
          IN  /\ Len(f) >= 4
              /\ f[2] # f[3]
              /\ Strip(f[Len(f)]) # f[Len(f)]

\* C6: a text-answer line with at least 2 fields yields exactly one record
\* with question = trimmed first field, no options and answer_hash =
\* digest(lowercase(trimmed second field)); later fields change nothing.
C6_TextAnswer ==
    (Generated /\ quiz_type = TextAnswer) =>
        LET acc == AcceptedLines
            qs == generated_code.questions
        IN  /\ Len(qs) = Len(acc)
            /\ \A i \in 1..Len(acc) :
                  LET f == Fields(acc[i])
                  IN  /\ DOMAIN qs[i] = {"question", "answer_hash"}
                      /\ qs[i].question = Strip(f[1])
                      /\ qs[i].answer_hash = sha256_hexdigest(Lower(Strip(f[2])))

C6_Witness ==
    /\ Generated
    /\ quiz_type = TextAnswer
    /\ \E i \in 1..Len(AcceptedLines) :
          LET f == Fields(AcceptedLines[i])
          IN  /\ Len(f) >= 3
              /\ Lower(Strip(f[2])) # f[2]
              /\ Strip(f[3]) # Strip(f[2])

\* C7: the parsed sequence has one record per accepted line, in the order of
\* the lines, and when some line is blank or has too few fields it is
\* shorter than the number of lines.
C7_LineFiltering ==
    Generated =>
        LET acc == AcceptedLines
            qs == generated_code.questions
        IN  /\ Len(qs) = Len(acc)
            /\ \A i \in 1..Len(acc) :
                  /\ qs[i].question = Strip(Fields(acc[i])[1])
                  /\ qs[i].answer_hash =
                        sha256_hexdigest(Lower(Strip(AnswerField(acc[i]))))
            /\ (\E j \in 1..Len(InputLines) : ~IsAccepted(InputLines[j]))
                  => Len(qs) < Len(InputLines)

C7_Witness ==
    /\ Generated
    /\ Len(AcceptedLines) = 2
    /\ Len(InputLines) = 3
    /\ generated_code.questions[1] # generated_code.questions[2]

\* C8: a call of generate_python_code with the arguments of an earlier call
\* returns the same script, whatever certificates were issued, tokens drawn and days passed in
\* between, and generating writes no certificate and draws no token.
C8_Idempotent ==
    [][(CallGenerate /\ Generated)
         => /\ generated_code' = generated_code
            /\ cert_files' = cert_files
            /\ uuid_count' = uuid_count]_vars

C8_Witness ==
    /\ Generated
    /\ gen_calls = 2
    /\ today > 0
    /\ uuid_count > 0
    /\ Len(generated_code.questions) > 0

\* C9 (as claimed): every record of a multiple-choice quiz has an option
\* that hashes, under the grader's normalization, to its answer_hash.
C9_Answerable ==
    (Generated /\ quiz_type = MultipleChoice) =>
        \A i \in 1..Len(generated_code.questions) :
            LET q == generated_code.questions[i]
            IN  \E k \in 1..Len(q.options) :
                    sha256_hexdigest(Strip(Lower(q.options[k]))) = q.answer_hash

\* C10: an answer that is None or empty never counts, and
\* 0 <= score <= number of answers = number of questions.
C10_EmptyNeverCorrect ==
    Graded =>
        LET filled == {i \in 1..Len(result.answers) :
                          result.answers[i] # None /\ result.answers[i] # <<>>}
        IN  /\ Len(result.answers) = Len(generated_code.questions)
            /\ result.total = Len(generated_code.questions)
            /\ 0 <= result.score
            /\ result.score <= Cardinality(filled)
            /\ result.score <= result.total

C10_Witness ==
    /\ Graded
    /\ \E i \in 1..Len(result.answers) :
          /\ result.answers[i] = <<>>
          /\ generated_code.questions[i].answer_hash = sha256_hexdigest(<<>>)

====
